---- MODULE Spec2Model ----
(***************************************************************************)
(* A model of tprune (src/main.go): the retention policy, the two          *)
(* paginated fetchers, the destroyer, the back-off helper and the loops of *)
(* run that drive them against the remote service.                         *)
(*                                                                         *)
(* The remote service (the go-twitter client and the API behind it) is the *)
(* environment.  A call returns what the client library returns:           *)
(*   - a success: a page of items, a response, no error;                   *)
(*   - an application error: no items, a response carrying a status code   *)
(*     and headers, an error;                                              *)
(*   - a transport failure: no items, a nil response, an error.            *)
(* A successful list call honours max_id (only identifiers <= a non-zero   *)
(* cursor are returned) and returns at most Count items that exist in the  *)
(* collection; which of them, and in which order, is the remote's choice.  *)
(* An item's creation time and text are fixed by its identifier (catalog). *)
(* Identifiers are positive; durations and instants are whole seconds.     *)
(***************************************************************************)
EXTENDS Integers, Sequences, FiniteSets, TLC

VARIABLES
    pc,               \* position of the process: main, run's loops, the exits
    cfg,              \* config (src/main.go:62-68)
    clock,            \* wall clock, in seconds
    exitCode,         \* process exit code, -1 while running
    runErr,           \* what run returned: <<>> is nil, else <<annotation, cause>>
    tweetFetcher,     \* tweetFetcher fields maxID, tweets, err (src/main.go:144-151)
    favoriteFetcher,  \* favoriteFetcher fields maxID, tweets, err (src/main.go:200-207)
    destroyer,        \* destroyer fields now, retention (src/main.go:253-257)
    idx,              \* position of the range loop inside the current page
    timeline,         \* remote: identifiers in the account's timeline
    favorites,        \* remote: identifiers in the account's favorites list
    faithful,         \* history: every successful list response so far was the full
                      \* page of the newest matching items, newest first
    last,             \* history: what the last operation did
    evaluated,        \* history: the identifiers the destroyer was handed, per resource
    catalog,          \* remote: creation time and text of the item of each identifier
    probe,            \* input and output of one isolated call of isTombstoned
    log               \* history: what the run has done so far (see NoLog)

vars == << pc, cfg, clock, exitCode, runErr, tweetFetcher, favoriteFetcher,
           destroyer, idx, timeline, favorites, faithful, last, evaluated,
           catalog, probe, log >>

----------------------------------------------------------------------------
(* Bounds of the model *)

\* item identifiers are 1..MaxID
MaxID == 3
\* the page size asked of the remote (Count: 200 in the source), scaled down
Count == 2
\* the clock stops offering sleeps that would take it past MaxClock
MaxClock == 1

----------------------------------------------------------------------------
(* Strings are sequences of characters *)

Max(a, b) == IF a >= b THEN a ELSE b

\* every sequence over S of length at most n
SeqsUpTo(S, n) == UNION { [1..k -> S] : k \in 0..n }

\* strings.Contains(s, substr)
Contains(s, substr) ==
    \E i \in 1..(Len(s) - Len(substr) + 1) :
        SubSeq(s, i, i + Len(substr) - 1) = substr

----------------------------------------------------------------------------
(* Items, the retention policy and isTombstoned (src/main.go:337-366) *)

\* twitter.Tweet, the fields the program reads: ID, CreatedAt, Text.
\* CreatedAt is the timestamp string of the payload: ok says whether
\* CreatedAtTime can parse it, at is the instant it denotes.
Tweet(id, createdAt, text) == [ID |-> id, CreatedAt |-> createdAt, Text |-> text]

\* t.CreatedAtTime(): (time, error)
CreatedAtTime(t) ==
    [err |-> ~t.CreatedAt.ok, time |-> IF t.CreatedAt.ok THEN t.CreatedAt.at ELSE 0]

\* the loop over r.ids: true when some element equals id
RECURSIVE idListed(_, _, _)
idListed(ids, i, id) ==
    IF i > Len(ids) THEN FALSE
    ELSE IF ids[i] = id THEN TRUE
    ELSE idListed(ids, i + 1, id)

\* the loop over r.keywords: true when some keyword is contained in text
RECURSIVE keywordListed(_, _, _)
keywordListed(keywords, i, text) ==
    IF i > Len(keywords) THEN FALSE
    ELSE IF Contains(text, keywords[i]) THEN TRUE
    ELSE keywordListed(keywords, i + 1, text)

\* a faulty variant of isTombstoned: the age test is <= instead of <
isTombstonedAgeInclusive(r, t, now) ==
    LET c == CreatedAtTime(t)
        age == now - c.time
    IN  IF c.err THEN [evict |-> FALSE, err |-> TRUE]
        ELSE IF age <= r.maxAge THEN [evict |-> FALSE, err |-> FALSE]
        ELSE IF idListed(r.ids, 1, t.ID) THEN [evict |-> FALSE, err |-> FALSE]
        ELSE IF keywordListed(r.keywords, 1, t.Text) THEN [evict |-> FALSE, err |-> FALSE]
        ELSE [evict |-> TRUE, err |-> FALSE]

\* retention.isTombstoned(logger, t, now): (evict, error)
isTombstoned(r, t, now) ==
    LET c == CreatedAtTime(t)
        age == now - c.time
    IN  IF c.err THEN [evict |-> FALSE, err |-> TRUE]
        ELSE IF age < r.maxAge THEN [evict |-> FALSE, err |-> FALSE]
        ELSE IF idListed(r.ids, 1, t.ID) THEN [evict |-> FALSE, err |-> FALSE]
        ELSE IF keywordListed(r.keywords, 1, t.Text) THEN [evict |-> FALSE, err |-> FALSE]
        ELSE [evict |-> TRUE, err |-> FALSE]

----------------------------------------------------------------------------
(* backOff (src/main.go:326-335) *)

IsDigit(c) == c \in { "0", "1" }

DigitValue(c) == IF c = "1" THEN 1 ELSE 0

\* the decimal value of a string of digits
RECURSIVE digitsValue(_, _)
digitsValue(s, acc) ==
    IF s = << >> THEN acc
    ELSE digitsValue(Tail(s), 10 * acc + DigitValue(Head(s)))

\* strconv.Atoi(s): an optional sign, then one digit or more
Atoi(s) ==
    LET signed == s # << >> /\ Head(s) = "-"
        digits == IF signed THEN Tail(s) ELSE s
        valid  == digits # << >> /\ \A i \in 1..Len(digits) : IsDigit(digits[i])
    IN  IF ~valid THEN [err |-> TRUE, n |-> 0]
        ELSE [err |-> FALSE,
              n   |-> IF signed THEN 0 - digitsValue(digits, 0)
                      ELSE digitsValue(digits, 0)]

\* http.Header restricted to X-Rate-Limit-Reset: has says whether it is set
Header(has, val) == [has |-> has, val |-> val]

\* header.Get("X-Rate-Limit-Reset"): the empty string when the header is missing
HeaderGet(header) == IF header.has THEN header.val ELSE << >>

\* a faulty variant of backOff: the parse error is ignored and no sleep happens
backOffSwallow(header) ==
    LET reset == Atoi(HeaderGet(header))
    IN  IF reset.err THEN [err |-> FALSE, slept |-> << >>]
        ELSE [err |-> FALSE, slept |-> << reset.n >>]

\* backOff(header): the error it returns and the calls of time.Sleep it makes,
\* each with its argument in seconds
backOff(header) ==
    LET reset == Atoi(HeaderGet(header))
    IN  IF reset.err THEN [err |-> TRUE, slept |-> << >>]
        ELSE [err |-> FALSE, slept |-> << reset.n >>]

\* time.Sleep returns at once for a duration that is not positive
Elapsed(slept) == IF slept = << >> THEN 0 ELSE Max(slept[1], 0)

----------------------------------------------------------------------------
(* What a remote call returns: (items, *http.Response, error) *)

\* http.StatusTooManyRequests
StatusTooManyRequests == 429

\* the status codes of the application errors the remote answers with
ErrorStatuses == { 429, 500 }

NoHeader == Header(FALSE, << >>)

\* the values the X-Rate-Limit-Reset header of a response can have
HeaderValues ==
    { << "0" >>, << "1" >>, << "0", "1" >>, << "-", "1" >>,
      << >>, << "x" >>, << "1", "x" >> }

Headers == { NoHeader } \cup { Header(TRUE, v) : v \in HeaderValues }

\* a *http.Response: nil, or a status code and headers
NilResponse == [nil |-> TRUE, StatusCode |-> 0, Header |-> NoHeader]

Response(status, header) == [nil |-> FALSE, StatusCode |-> status, Header |-> header]

\* a success: the items, a 200 response, no error
Success(tweets) == [tweets |-> tweets, resp |-> Response(200, NoHeader), err |-> FALSE]

\* a transport failure: no items, no response, an error
TransportFailure == [tweets |-> << >>, resp |-> NilResponse, err |-> TRUE]

\* an application error: no items, the response, an error
ApplicationError(status, header) ==
    [tweets |-> << >>, resp |-> Response(status, header), err |-> TRUE]

\* a rate-limit response is offered while the sleep it asks for fits the clock
SleepFits(header, now) ==
    LET reset == Atoi(HeaderGet(header))
    IN  reset.err \/ now + Max(reset.n, 0) <= MaxClock

\* the failures of a remote call at time now
Failures(now) ==
    { TransportFailure }
    \cup { ApplicationError(st, NoHeader) : st \in ErrorStatuses \ { StatusTooManyRequests } }
    \cup { ApplicationError(StatusTooManyRequests, h) : h \in { x \in Headers : SleepFits(x, now) } }

\* the creation timestamps of the items the remote serves: the destroyer's now is 0
old == [ok |-> TRUE, at |-> 0 - 2]
young == [ok |-> TRUE, at |-> 0 - 1]
unparsable == [ok |-> FALSE, at |-> 0]

\* creation time and text of the items the remote serves
ItemKinds ==
    << [CreatedAt |-> old, Text |-> << "b" >>],
       [CreatedAt |-> old, Text |-> << "b", "a" >>],
       [CreatedAt |-> young, Text |-> << "b" >>],
       [CreatedAt |-> unparsable, Text |-> << "b" >>] >>

IDs == 1..MaxID

\* the contents the remote may hold: an item's creation time and text are fixed
\* by its identifier; each identifier is of each kind in one of the catalogs
Catalogs ==
    { [i \in IDs |-> ItemKinds[((i + c) % Len(ItemKinds)) + 1]] : c \in 1..Len(ItemKinds) }

\* the identifiers of collection a list call with cursor maxID may return:
\* MaxID: 0 is omitted from the request and means no upper limit
Eligible(collection, maxID) == { i \in collection : maxID = 0 \/ i <= maxID }

IsInjective(q) == \A i, j \in 1..Len(q) : i # j => q[i] # q[j]

\* the pages a successful list call may return: at most Count distinct items of
\* the collection that honour max_id, in any order
Pages(collection, maxID, items) ==
    { [j \in 1..Len(q) |-> Tweet(q[j], items[q[j]].CreatedAt, items[q[j]].Text)] :
        q \in { x \in SeqsUpTo(Eligible(collection, maxID), Count) : IsInjective(x) } }

SetMax(S) == CHOOSE x \in S : \A y \in S : y <= x

\* the n largest elements of S, largest first
RECURSIVE Newest(_, _)
Newest(S, n) ==
    IF n = 0 \/ S = {} THEN << >>
    ELSE << SetMax(S) >> \o Newest(S \ { SetMax(S) }, n - 1)

PageIDs(tweets) == [j \in 1..Len(tweets) |-> tweets[j].ID]

\* the page is the one the API documents: the newest Count items, newest first
IsFaithfulPage(tweets, collection, maxID) ==
    PageIDs(tweets) = Newest(Eligible(collection, maxID), Count)

\* what a list call may return
ListResponses(collection, maxID, items, now) ==
    { Success(p) : p \in Pages(collection, maxID, items) } \cup Failures(now)

\* what a delete call may return
DeleteResponses(now) == { Success(<< >>) } \cup Failures(now)

----------------------------------------------------------------------------
(* The fetchers (src/main.go:143-250) *)

\* the nil error
nil == "nil"

\* newTweetFetcher: maxID, tweets and err have their zero values
newTweetFetcher == [maxID |-> 0, tweets |-> << >>, err |-> nil]

\* newFavoriteFetcher: maxID, tweets and err have their zero values
newFavoriteFetcher == [maxID |-> 0, tweets |-> << >>, err |-> nil]

\* the outcome of one call of fetch: the fetcher afterwards, the value returned,
\* the sleeps made, whether the call panicked (a nil response dereferenced), and
\* the number of list requests the call issued
FetchOutcome(f, ret, slept, panic, requests) ==
    [f |-> f, ret |-> ret, slept |-> slept, panic |-> panic, requests |-> requests]

\* a faulty variant of tweetFetcher.fetch: an empty page is reported as "more to fetch"
tweetFetcherFetchNoStop(f, r) ==
    LET f1 == [f EXCEPT !.tweets = r.tweets]
    IN  IF r.err /\ r.resp.nil THEN FetchOutcome(f1, FALSE, << >>, TRUE, 1)
        ELSE IF r.err /\ r.resp.StatusCode # StatusTooManyRequests
        THEN FetchOutcome([f1 EXCEPT !.err = "failed to fetch tweets"], FALSE, << >>, FALSE, 1)
        ELSE IF r.err /\ backOff(r.resp.Header).err
        THEN FetchOutcome([f1 EXCEPT !.err = "failed to back off"], FALSE, << >>, FALSE, 1)
        ELSE LET slept == IF r.err THEN backOff(r.resp.Header).slept ELSE << >>
             IN  IF Len(f1.tweets) > 0
                 THEN FetchOutcome([f1 EXCEPT !.maxID = f1.tweets[Len(f1.tweets)].ID - 1],
                                   TRUE, slept, FALSE, 1)
                 ELSE FetchOutcome(f1, ~r.err, slept, FALSE, 1)

\* a faulty variant of tweetFetcher.fetch: the cursor is taken from the first item
tweetFetcherFetchFirst(f, r) ==
    LET f1 == [f EXCEPT !.tweets = r.tweets]
    IN  IF r.err /\ r.resp.nil THEN FetchOutcome(f1, FALSE, << >>, TRUE, 1)
        ELSE IF r.err /\ r.resp.StatusCode # StatusTooManyRequests
        THEN FetchOutcome([f1 EXCEPT !.err = "failed to fetch tweets"], FALSE, << >>, FALSE, 1)
        ELSE IF r.err /\ backOff(r.resp.Header).err
        THEN FetchOutcome([f1 EXCEPT !.err = "failed to back off"], FALSE, << >>, FALSE, 1)
        ELSE LET slept == IF r.err THEN backOff(r.resp.Header).slept ELSE << >>
             IN  IF Len(f1.tweets) > 0
                 THEN FetchOutcome([f1 EXCEPT !.maxID = f1.tweets[1].ID - 1],
                                   TRUE, slept, FALSE, 1)
                 ELSE FetchOutcome(f1, FALSE, slept, FALSE, 1)

\* a faulty variant of tweetFetcher.fetch: the cursor is not moved
tweetFetcherFetchStuck(f, r) ==
    LET f1 == [f EXCEPT !.tweets = r.tweets]
    IN  IF r.err /\ r.resp.nil THEN FetchOutcome(f1, FALSE, << >>, TRUE, 1)
        ELSE IF r.err /\ r.resp.StatusCode # StatusTooManyRequests
        THEN FetchOutcome([f1 EXCEPT !.err = "failed to fetch tweets"], FALSE, << >>, FALSE, 1)
        ELSE IF r.err /\ backOff(r.resp.Header).err
        THEN FetchOutcome([f1 EXCEPT !.err = "failed to back off"], FALSE, << >>, FALSE, 1)
        ELSE LET slept == IF r.err THEN backOff(r.resp.Header).slept ELSE << >>
             IN  IF Len(f1.tweets) > 0
                 THEN FetchOutcome(f1, TRUE, slept, FALSE, 1)
                 ELSE FetchOutcome(f1, FALSE, slept, FALSE, 1)

\* a faulty variant of tweetFetcher.fetch: true is returned after an error was stored
tweetFetcherFetchErrTrue(f, r) ==
    LET f1 == [f EXCEPT !.tweets = r.tweets]
    IN  IF r.err /\ r.resp.nil THEN FetchOutcome(f1, FALSE, << >>, TRUE, 1)
        ELSE IF r.err /\ r.resp.StatusCode # StatusTooManyRequests
        THEN FetchOutcome([f1 EXCEPT !.err = "failed to fetch tweets"], TRUE, << >>, FALSE, 1)
        ELSE IF r.err /\ backOff(r.resp.Header).err
        THEN FetchOutcome([f1 EXCEPT !.err = "failed to back off"], FALSE, << >>, FALSE, 1)
        ELSE LET slept == IF r.err THEN backOff(r.resp.Header).slept ELSE << >>
             IN  IF Len(f1.tweets) > 0
                 THEN FetchOutcome([f1 EXCEPT !.maxID = f1.tweets[Len(f1.tweets)].ID - 1],
                                   TRUE, slept, FALSE, 1)
                 ELSE FetchOutcome(f1, FALSE, slept, FALSE, 1)

\* tweetFetcher.fetch (src/main.go:167-197), given what UserTimeline returns
tweetFetcherFetch(f, r) ==
    LET f1 == [f EXCEPT !.tweets = r.tweets]
    IN  IF r.err /\ r.resp.nil THEN FetchOutcome(f1, FALSE, << >>, TRUE, 1)
        ELSE IF r.err /\ r.resp.StatusCode # StatusTooManyRequests
        THEN FetchOutcome([f1 EXCEPT !.err = "failed to fetch tweets"], FALSE, << >>, FALSE, 1)
        ELSE IF r.err /\ backOff(r.resp.Header).err
        THEN FetchOutcome([f1 EXCEPT !.err = "failed to back off"], FALSE, << >>, FALSE, 1)
        ELSE LET slept == IF r.err THEN backOff(r.resp.Header).slept ELSE << >>
             IN  IF Len(f1.tweets) > 0
                 THEN FetchOutcome([f1 EXCEPT !.maxID = f1.tweets[Len(f1.tweets)].ID - 1],
                                   TRUE, slept, FALSE, 1)
                 ELSE FetchOutcome(f1, FALSE, slept, FALSE, 1)

\* a faulty variant of favoriteFetcher.fetch: the cursor is the last identifier itself
favoriteFetcherFetchSame(f, r) ==
    LET f1 == [f EXCEPT !.tweets = r.tweets]
    IN  IF r.err /\ r.resp.nil THEN FetchOutcome(f1, FALSE, << >>, TRUE, 1)
        ELSE IF r.err /\ r.resp.StatusCode # StatusTooManyRequests
        THEN FetchOutcome([f1 EXCEPT !.err = "failed to fetch tweets"], FALSE, << >>, FALSE, 1)
        ELSE IF r.err /\ backOff(r.resp.Header).err
        THEN FetchOutcome([f1 EXCEPT !.err = "failed to back off"], FALSE, << >>, FALSE, 1)
        ELSE LET slept == IF r.err THEN backOff(r.resp.Header).slept ELSE << >>
             IN  IF Len(f1.tweets) > 0
                 THEN FetchOutcome([f1 EXCEPT !.maxID = f1.tweets[Len(f1.tweets)].ID],
                                   TRUE, slept, FALSE, 1)
                 ELSE FetchOutcome(f1, FALSE, slept, FALSE, 1)

\* favoriteFetcher.fetch (src/main.go:223-250), given what Favorites.List returns
favoriteFetcherFetch(f, r) ==
    LET f1 == [f EXCEPT !.tweets = r.tweets]
    IN  IF r.err /\ r.resp.nil THEN FetchOutcome(f1, FALSE, << >>, TRUE, 1)
        ELSE IF r.err /\ r.resp.StatusCode # StatusTooManyRequests
        THEN FetchOutcome([f1 EXCEPT !.err = "failed to fetch tweets"], FALSE, << >>, FALSE, 1)
        ELSE IF r.err /\ backOff(r.resp.Header).err
        THEN FetchOutcome([f1 EXCEPT !.err = "failed to back off"], FALSE, << >>, FALSE, 1)
        ELSE LET slept == IF r.err THEN backOff(r.resp.Header).slept ELSE << >>
             IN  IF Len(f1.tweets) > 0
                 THEN FetchOutcome([f1 EXCEPT !.maxID = f1.tweets[Len(f1.tweets)].ID - 1],
                                   TRUE, slept, FALSE, 1)
                 ELSE FetchOutcome(f1, FALSE, slept, FALSE, 1)

----------------------------------------------------------------------------
(* The destroyer (src/main.go:252-324) *)

\* newDestroyer: now is time.Now()
newDestroyer(r, now) == [now |-> now, retention |-> r]

\* the outcome of one call of destroyTweet or destroyFavorite: the error returned
\* (nil, or its text), whether the remote delete call was made, whether it
\* succeeded, the sleeps made, whether the call panicked, and the number of
\* delete requests the call issued
DestroyOutcome(err, called, deleted, slept, panic, requests) ==
    [err |-> err, called |-> called, deleted |-> deleted, slept |-> slept, panic |-> panic,
     requests |-> requests]

\* a faulty variant of destroyTweet: the policy's decision is not consulted
destroyTweetAlways(d, t, r) ==
    LET e == isTombstoned(d.retention, t, d.now)
    IN  IF e.err THEN DestroyOutcome("failed to parse time", FALSE, FALSE, << >>, FALSE, 0)
        ELSE IF ~r.err THEN DestroyOutcome(nil, TRUE, TRUE, << >>, FALSE, 1)
        ELSE IF r.resp.nil THEN DestroyOutcome(nil, TRUE, FALSE, << >>, TRUE, 1)
        ELSE IF r.resp.StatusCode # StatusTooManyRequests
        THEN DestroyOutcome("remote error", TRUE, FALSE, << >>, FALSE, 1)
        ELSE IF backOff(r.resp.Header).err
        THEN DestroyOutcome("failed to back off", TRUE, FALSE, << >>, FALSE, 1)
        ELSE DestroyOutcome(nil, TRUE, FALSE, backOff(r.resp.Header).slept, FALSE, 1)

\* a faulty variant of destroyTweet: a rate-limited delete is reported as an error
destroyTweetAbort(d, t, r) ==
    LET e == isTombstoned(d.retention, t, d.now)
    IN  IF e.err THEN DestroyOutcome("failed to parse time", FALSE, FALSE, << >>, FALSE, 0)
        ELSE IF ~e.evict THEN DestroyOutcome(nil, FALSE, FALSE, << >>, FALSE, 0)
        ELSE IF ~r.err THEN DestroyOutcome(nil, TRUE, TRUE, << >>, FALSE, 1)
        ELSE IF r.resp.nil THEN DestroyOutcome(nil, TRUE, FALSE, << >>, TRUE, 1)
        ELSE IF r.resp.StatusCode # StatusTooManyRequests
        THEN DestroyOutcome("remote error", TRUE, FALSE, << >>, FALSE, 1)
        ELSE IF backOff(r.resp.Header).err
        THEN DestroyOutcome("failed to back off", TRUE, FALSE, << >>, FALSE, 1)
        ELSE DestroyOutcome("rate limited", TRUE, FALSE, backOff(r.resp.Header).slept, FALSE, 1)

\* destroyer.destroyTweet (src/main.go:269-294), given what Statuses.Destroy
\* returns when it is called
destroyTweet(d, t, r) ==
    LET e == isTombstoned(d.retention, t, d.now)
    IN  IF e.err THEN DestroyOutcome("failed to parse time", FALSE, FALSE, << >>, FALSE, 0)
        ELSE IF ~e.evict THEN DestroyOutcome(nil, FALSE, FALSE, << >>, FALSE, 0)
        ELSE IF ~r.err THEN DestroyOutcome(nil, TRUE, TRUE, << >>, FALSE, 1)
        ELSE IF r.resp.nil THEN DestroyOutcome(nil, TRUE, FALSE, << >>, TRUE, 1)
        ELSE IF r.resp.StatusCode # StatusTooManyRequests
        THEN DestroyOutcome("remote error", TRUE, FALSE, << >>, FALSE, 1)
        ELSE IF backOff(r.resp.Header).err
        THEN DestroyOutcome("failed to back off", TRUE, FALSE, << >>, FALSE, 1)
        ELSE DestroyOutcome(nil, TRUE, FALSE, backOff(r.resp.Header).slept, FALSE, 1)

\* a faulty variant of destroyFavorite: an item whose time does not parse is skipped
destroyFavoriteSkip(d, t, r) ==
    LET e == isTombstoned(d.retention, t, d.now)
    IN  IF e.err THEN DestroyOutcome(nil, FALSE, FALSE, << >>, FALSE, 0)
        ELSE IF ~e.evict THEN DestroyOutcome(nil, FALSE, FALSE, << >>, FALSE, 0)
        ELSE IF ~r.err THEN DestroyOutcome(nil, TRUE, TRUE, << >>, FALSE, 1)
        ELSE IF r.resp.nil THEN DestroyOutcome(nil, TRUE, FALSE, << >>, TRUE, 1)
        ELSE IF r.resp.StatusCode # StatusTooManyRequests
        THEN DestroyOutcome("remote error", TRUE, FALSE, << >>, FALSE, 1)
        ELSE IF backOff(r.resp.Header).err
        THEN DestroyOutcome("failed to back off", TRUE, FALSE, << >>, FALSE, 1)
        ELSE DestroyOutcome(nil, TRUE, FALSE, backOff(r.resp.Header).slept, FALSE, 1)

\* a faulty variant of destroyFavorite: after the back-off sleep the delete request is
\* issued again, and succeeds
destroyFavoriteRetry(d, t, r) ==
    LET e == isTombstoned(d.retention, t, d.now)
    IN  IF e.err THEN DestroyOutcome("failed to parse time", FALSE, FALSE, << >>, FALSE, 0)
        ELSE IF ~e.evict THEN DestroyOutcome(nil, FALSE, FALSE, << >>, FALSE, 0)
        ELSE IF ~r.err THEN DestroyOutcome(nil, TRUE, TRUE, << >>, FALSE, 1)
        ELSE IF r.resp.nil THEN DestroyOutcome(nil, TRUE, FALSE, << >>, TRUE, 1)
        ELSE IF r.resp.StatusCode # StatusTooManyRequests
        THEN DestroyOutcome("remote error", TRUE, FALSE, << >>, FALSE, 1)
        ELSE IF backOff(r.resp.Header).err
        THEN DestroyOutcome("failed to back off", TRUE, FALSE, << >>, FALSE, 1)
        ELSE DestroyOutcome(nil, TRUE, TRUE, backOff(r.resp.Header).slept, FALSE, 2)

\* a faulty variant of destroyFavorite: the decision is taken a second after d.now
destroyFavoriteLate(d, t, r) ==
    LET e == isTombstoned(d.retention, t, d.now + 1)
    IN  IF e.err THEN DestroyOutcome("failed to parse time", FALSE, FALSE, << >>, FALSE, 0)
        ELSE IF ~e.evict THEN DestroyOutcome(nil, FALSE, FALSE, << >>, FALSE, 0)
        ELSE IF ~r.err THEN DestroyOutcome(nil, TRUE, TRUE, << >>, FALSE, 1)
        ELSE IF r.resp.nil THEN DestroyOutcome(nil, TRUE, FALSE, << >>, TRUE, 1)
        ELSE IF r.resp.StatusCode # StatusTooManyRequests
        THEN DestroyOutcome("remote error", TRUE, FALSE, << >>, FALSE, 1)
        ELSE IF backOff(r.resp.Header).err
        THEN DestroyOutcome("failed to back off", TRUE, FALSE, << >>, FALSE, 1)
        ELSE DestroyOutcome(nil, TRUE, FALSE, backOff(r.resp.Header).slept, FALSE, 1)

\* destroyer.destroyFavorite (src/main.go:297-324), given what Favorites.Destroy
\* returns when it is called
destroyFavorite(d, t, r) ==
    LET e == isTombstoned(d.retention, t, d.now)
    IN  IF e.err THEN DestroyOutcome("failed to parse time", FALSE, FALSE, << >>, FALSE, 0)
        ELSE IF ~e.evict THEN DestroyOutcome(nil, FALSE, FALSE, << >>, FALSE, 0)
        ELSE IF ~r.err THEN DestroyOutcome(nil, TRUE, TRUE, << >>, FALSE, 1)
        ELSE IF r.resp.nil THEN DestroyOutcome(nil, TRUE, FALSE, << >>, TRUE, 1)
        ELSE IF r.resp.StatusCode # StatusTooManyRequests
        THEN DestroyOutcome("remote error", TRUE, FALSE, << >>, FALSE, 1)
        ELSE IF backOff(r.resp.Header).err
        THEN DestroyOutcome("failed to back off", TRUE, FALSE, << >>, FALSE, 1)
        ELSE DestroyOutcome(nil, TRUE, FALSE, backOff(r.resp.Header).slept, FALSE, 1)

----------------------------------------------------------------------------
(* Configuration (src/main.go:62-90) *)

\* config.validate(): nil, or the error
validate(c) ==
    IF c.username = "" THEN "-username is required"
    ELSE IF c.consumerKey = "" THEN "-consumer-key is required"
    ELSE IF c.consumerSecret = "" THEN "-consumer-secret is required"
    ELSE IF c.oauthToken = "" THEN "-oauth-token is required"
    ELSE IF c.oauthTokenSecret = "" THEN "-oauth-token-secret is required"
    ELSE IF c.retention.maxAge = 0 THEN "-max-age is required"
    ELSE nil

\* newLogger(logLevel): the error of lvl.Set, nil for a level zap knows
newLogger(logLevel) ==
    IF logLevel \in { "debug", "info", "warn", "error" } THEN nil
    ELSE "unrecognized level"

Retention(ids, keywords, maxAge) == [ids |-> ids, keywords |-> keywords, maxAge |-> maxAge]

Config(username, consumerKey, consumerSecret, oauthToken, oauthTokenSecret, retention, logLevel) ==
    [username |-> username, consumerKey |-> consumerKey, consumerSecret |-> consumerSecret,
     oauthToken |-> oauthToken, oauthTokenSecret |-> oauthTokenSecret,
     retention |-> retention, logLevel |-> logLevel]

\* the configuration of the runs that sweep a remote holding items
MainConfig == Config("u", "k", "s", "t", "ts", Retention(<< 2 >>, << << "a" >> >>, 2), "info")

\* the other configurations explored, against a remote holding no items: other
\* maximum ages, a required field left empty, an unknown log level
OtherConfigs ==
    { Config("u", "k", "s", "t", "ts", Retention(<< >>, << >>, maxAge), "info") :
        maxAge \in (0 - 1)..1 }
    \cup { Config(u, k, "s", "t", "ts", Retention(<< >>, << >>, 2), l) :
             u \in { "", "u" }, k \in { "", "k" }, l \in { "info", "loud" } }
    \cup { Config("u", "k", sec, t, ts, Retention(<< >>, << >>, 2), "info") :
             sec \in { "", "s" }, t \in { "", "t" }, ts \in { "", "ts" } }

Configs == { MainConfig } \cup OtherConfigs

----------------------------------------------------------------------------
(* History of the last operation *)

\* no item
NoTweet == Tweet(0, unparsable, << >>)

\* no remote call was made
NoCall == [tweets |-> << >>, resp |-> NilResponse, err |-> FALSE]

\* op: the operation; t: the item it processed; called: whether it made its
\* remote call; r: what the call returned; ret: what the operation returned;
\* slept: the sleeps it made; cursor: the fetcher's maxID before it
Last(op, t, called, r, ret, slept, cursor) ==
    [op |-> op, t |-> t, called |-> called, r |-> r, ret |-> ret, slept |-> slept,
     cursor |-> cursor]

IsRateLimit(r) == r.err /\ ~r.resp.nil /\ r.resp.StatusCode = StatusTooManyRequests

\* the history of a run before its first operation
\*   requests:    the remote requests the last operation issued
\*   processed:   the identifiers handed to the destroyer since the last call of
\*                fetch, in the order they were handed
\*   constructed: the clock when newDestroyer ran
\*   returned:    what the last call of each fetcher returned, "none" before it
\*   descending:  the last item of every page so far was the page's smallest
\*   drained:     the posts fetcher has returned false
\*   begun:       a favorites operation has been issued
\*   deleted:     the identifiers a delete request was issued for, per resource
NoLog ==
    [requests |-> 0, processed |-> << >>, constructed |-> 0,
     returned |-> [posts |-> "none", favorites |-> "none"],
     descending |-> TRUE,
     drained |-> FALSE, begun |-> FALSE,
     deleted |-> [posts |-> {}, favorites |-> {}]]

\* the last item of the page is its smallest (an empty page has none)
EndsWithSmallest(tweets) ==
    tweets # << >> => \A j \in 1..Len(tweets) : tweets[Len(tweets)].ID <= tweets[j].ID

\* the value a call of fetch returned, as the history records it
Returned(o) == IF o.panic THEN "panic" ELSE IF o.ret THEN "true" ELSE "false"

----------------------------------------------------------------------------
(* The process: main and run (src/main.go:19-141) *)

NoProbe == [t |-> NoTweet, r |-> Retention(<< >>, << >>, 0), now |-> 0,
            done |-> FALSE, evict |-> FALSE, err |-> FALSE]

Init ==
    /\ pc = "main"
    /\ cfg \in Configs
    /\ clock = 0
    /\ exitCode = 0 - 1
    /\ runErr = << >>
    /\ tweetFetcher = newTweetFetcher
    /\ favoriteFetcher = newFavoriteFetcher
    /\ destroyer = newDestroyer(Retention(<< >>, << >>, 0), 0)
    /\ idx = 0
    /\ timeline = IF cfg = MainConfig THEN IDs ELSE {}
    /\ favorites = IF cfg = MainConfig THEN IDs ELSE {}
    /\ faithful = TRUE
    /\ last = Last("none", NoTweet, FALSE, NoCall, "none", << >>, 0)
    /\ evaluated = [posts |-> {}, favorites |-> {}]
    /\ catalog \in Catalogs
    /\ probe = NoProbe
    /\ log = NoLog

\* main (src/main.go:40-53): a configuration that does not validate ends the
\* process with exit code 2, else run is entered
Main ==
    /\ pc = "main"
    /\ IF validate(cfg) # nil
       THEN pc' = "exit" /\ exitCode' = 2
       ELSE pc' = "run" /\ UNCHANGED exitCode
    /\ last' = Last("main", NoTweet, FALSE, NoCall, validate(cfg), << >>, 0)
    /\ UNCHANGED << cfg, clock, runErr, tweetFetcher, favoriteFetcher, destroyer, idx,
                    timeline, favorites, faithful, evaluated, catalog, probe, log >>

\* run returns err and main exits (src/main.go:56-59)
Return(err) ==
    /\ pc' = "exit"
    /\ runErr' = err
    /\ exitCode' = IF err = << >> THEN 0 ELSE 1

\* a nil response is dereferenced: the process panics
Panic ==
    /\ pc' = "panic"
    /\ exitCode' = 2
    /\ UNCHANGED runErr

\* run up to its first loop (src/main.go:93-116): the logger, the credentials
\* check, the two fetchers and the destroyer
RunStart ==
    /\ pc = "run"
    /\ \E verified \in BOOLEAN :
        /\ IF newLogger(cfg.logLevel) # nil
           THEN /\ verified
                /\ Return(<< "failed to setup logger", newLogger(cfg.logLevel) >>)
                /\ last' = Last("start", NoTweet, FALSE, NoCall, "err", << >>, 0)
                /\ UNCHANGED << tweetFetcher, favoriteFetcher, destroyer, log >>
           ELSE IF ~verified
           THEN /\ Return(<< "failed to verify credentials", "remote error" >>)
                /\ last' = Last("start", NoTweet, TRUE, TransportFailure, "err", << >>, 0)
                /\ log' = [log EXCEPT !.requests = 1]
                /\ UNCHANGED << tweetFetcher, favoriteFetcher, destroyer >>
           ELSE /\ tweetFetcher' = newTweetFetcher
                /\ favoriteFetcher' = newFavoriteFetcher
                /\ destroyer' = newDestroyer(cfg.retention, clock)
                /\ pc' = "tweets"
                /\ last' = Last("start", NoTweet, TRUE, Success(<< >>), "ok", << >>, 0)
                /\ log' = [log EXCEPT !.requests = 1, !.constructed = clock]
                /\ UNCHANGED << runErr, exitCode >>
    /\ UNCHANGED << cfg, clock, idx, timeline, favorites, faithful, evaluated, catalog, probe >>

\* one evaluation of the first loop's condition (src/main.go:118-121):
\* tweetFetcher.fetch(), then the loop body's error check or the loop's exit
FetchTweets ==
    /\ pc = "tweets"
    /\ \E r \in ListResponses(timeline, tweetFetcher.maxID, catalog, clock) :
        LET o == tweetFetcherFetch(tweetFetcher, r)
        IN  /\ tweetFetcher' = o.f
            /\ clock' = clock + Elapsed(o.slept)
            /\ faithful' = (faithful /\
                    (~r.err => IsFaithfulPage(r.tweets, timeline, tweetFetcher.maxID)))
            /\ last' = Last("fetchTweets", NoTweet, TRUE, r, Returned(o),
                            o.slept, tweetFetcher.maxID)
            /\ log' = [log EXCEPT
                    !.requests = o.requests,
                    !.processed = << >>,
                    !.returned.posts = Returned(o),
                    !.descending = @ /\ EndsWithSmallest(r.tweets),
                    !.drained = @ \/ (~o.panic /\ ~o.ret)]
            /\ IF o.panic THEN Panic /\ UNCHANGED idx
               ELSE IF o.ret
               THEN IF o.f.err # nil
                    THEN Return(<< "failed to fetch", o.f.err >>) /\ UNCHANGED idx
                    ELSE IF Len(o.f.tweets) > 0
                    THEN pc' = "tweetItems" /\ idx' = 1 /\ UNCHANGED << runErr, exitCode >>
                    ELSE pc' = "tweets" /\ UNCHANGED << idx, runErr, exitCode >>
               ELSE pc' = "favorites" /\ UNCHANGED << idx, runErr, exitCode >>
    /\ UNCHANGED << cfg, favoriteFetcher, destroyer, timeline, favorites, evaluated, catalog,
                    probe >>

\* a faulty variant of the first loop: after a page of posts the favorites are fetched
DestroyTweetInterleaved ==
    /\ pc = "tweetItems"
    /\ \E r \in DeleteResponses(clock) :
        LET t == tweetFetcher.tweets[idx]
            o == destroyTweet(destroyer, t, r)
        IN  /\ o.called \/ r = Success(<< >>)
            /\ clock' = clock + Elapsed(o.slept)
            /\ timeline' = IF o.deleted THEN timeline \ { t.ID } ELSE timeline
            /\ evaluated' = [evaluated EXCEPT !.posts = @ \cup { t.ID }]
            /\ last' = Last("destroyTweet", t, o.called, IF o.called THEN r ELSE NoCall,
                            IF o.panic THEN "panic" ELSE o.err, o.slept, tweetFetcher.maxID)
            /\ log' = [log EXCEPT
                    !.requests = o.requests,
                    !.processed = Append(@, t.ID),
                    !.deleted.posts = IF o.requests > 0 THEN @ \cup { t.ID } ELSE @]
            /\ IF o.panic THEN Panic /\ UNCHANGED idx
               ELSE IF o.err # nil
               THEN Return(<< "failed to delete", o.err >>) /\ UNCHANGED idx
               ELSE IF idx < Len(tweetFetcher.tweets)
               THEN idx' = idx + 1 /\ UNCHANGED << pc, runErr, exitCode >>
               ELSE pc' = "favorites" /\ idx' = 0 /\ UNCHANGED << runErr, exitCode >>
    /\ UNCHANGED << cfg, tweetFetcher, favoriteFetcher, destroyer, favorites, faithful, catalog,
                    probe >>

\* a faulty variant of the first loop: the next page is fetched before the last item of
\* the page is processed
DestroyTweetEarly ==
    /\ pc = "tweetItems"
    /\ \E r \in DeleteResponses(clock) :
        LET t == tweetFetcher.tweets[idx]
            o == destroyTweet(destroyer, t, r)
        IN  /\ o.called \/ r = Success(<< >>)
            /\ clock' = clock + Elapsed(o.slept)
            /\ timeline' = IF o.deleted THEN timeline \ { t.ID } ELSE timeline
            /\ evaluated' = [evaluated EXCEPT !.posts = @ \cup { t.ID }]
            /\ last' = Last("destroyTweet", t, o.called, IF o.called THEN r ELSE NoCall,
                            IF o.panic THEN "panic" ELSE o.err, o.slept, tweetFetcher.maxID)
            /\ log' = [log EXCEPT
                    !.requests = o.requests,
                    !.processed = Append(@, t.ID),
                    !.deleted.posts = IF o.requests > 0 THEN @ \cup { t.ID } ELSE @]
            /\ IF o.panic THEN Panic /\ UNCHANGED idx
               ELSE IF o.err # nil
               THEN Return(<< "failed to delete", o.err >>) /\ UNCHANGED idx
               ELSE IF idx < Len(tweetFetcher.tweets) - 1
               THEN idx' = idx + 1 /\ UNCHANGED << pc, runErr, exitCode >>
               ELSE pc' = "tweets" /\ idx' = 0 /\ UNCHANGED << runErr, exitCode >>
    /\ UNCHANGED << cfg, tweetFetcher, favoriteFetcher, destroyer, favorites, faithful, catalog,
                    probe >>

\* one iteration of the range loop over tweetFetcher.tweets (src/main.go:122-126)
DestroyTweet ==
    /\ pc = "tweetItems"
    /\ \E r \in DeleteResponses(clock) :
        LET t == tweetFetcher.tweets[idx]
            o == destroyTweet(destroyer, t, r)
        IN  /\ o.called \/ r = Success(<< >>)
            /\ clock' = clock + Elapsed(o.slept)
            /\ timeline' = IF o.deleted THEN timeline \ { t.ID } ELSE timeline
            /\ evaluated' = [evaluated EXCEPT !.posts = @ \cup { t.ID }]
            /\ last' = Last("destroyTweet", t, o.called, IF o.called THEN r ELSE NoCall,
                            IF o.panic THEN "panic" ELSE o.err, o.slept, tweetFetcher.maxID)
            /\ log' = [log EXCEPT
                    !.requests = o.requests,
                    !.processed = Append(@, t.ID),
                    !.deleted.posts = IF o.requests > 0 THEN @ \cup { t.ID } ELSE @]
            /\ IF o.panic THEN Panic /\ UNCHANGED idx
               ELSE IF o.err # nil
               THEN Return(<< "failed to delete", o.err >>) /\ UNCHANGED idx
               ELSE IF idx < Len(tweetFetcher.tweets)
               THEN idx' = idx + 1 /\ UNCHANGED << pc, runErr, exitCode >>
               ELSE pc' = "tweets" /\ idx' = 0 /\ UNCHANGED << runErr, exitCode >>
    /\ UNCHANGED << cfg, tweetFetcher, favoriteFetcher, destroyer, favorites, faithful, catalog,
                    probe >>

\* one evaluation of the second loop's condition (src/main.go:129-132, 140):
\* favoriteFetcher.fetch(), then the loop body's error check, or the loop's
\* exit and run's return of nil
FetchFavorites ==
    /\ pc = "favorites"
    /\ \E r \in ListResponses(favorites, favoriteFetcher.maxID, catalog, clock) :
        LET o == favoriteFetcherFetch(favoriteFetcher, r)
        IN  /\ favoriteFetcher' = o.f
            /\ clock' = clock + Elapsed(o.slept)
            /\ faithful' = (faithful /\
                    (~r.err => IsFaithfulPage(r.tweets, favorites, favoriteFetcher.maxID)))
            /\ last' = Last("fetchFavorites", NoTweet, TRUE, r, Returned(o),
                            o.slept, favoriteFetcher.maxID)
            /\ log' = [log EXCEPT
                    !.requests = o.requests,
                    !.processed = << >>,
                    !.returned.favorites = Returned(o),
                    !.descending = @ /\ EndsWithSmallest(r.tweets),
                    !.begun = TRUE]
            /\ IF o.panic THEN Panic /\ UNCHANGED idx
               ELSE IF o.ret
               THEN IF o.f.err # nil
                    THEN Return(<< "failed to fetch", o.f.err >>) /\ UNCHANGED idx
                    ELSE IF Len(o.f.tweets) > 0
                    THEN pc' = "favoriteItems" /\ idx' = 1 /\ UNCHANGED << runErr, exitCode >>
                    ELSE pc' = "favorites" /\ UNCHANGED << idx, runErr, exitCode >>
               ELSE Return(<< >>) /\ UNCHANGED idx
    /\ UNCHANGED << cfg, tweetFetcher, destroyer, timeline, favorites, evaluated, catalog,
                    probe >>

\* one iteration of the range loop over favoriteFetcher.tweets (src/main.go:133-137)
DestroyFavorite ==
    /\ pc = "favoriteItems"
    /\ \E r \in DeleteResponses(clock) :
        LET t == favoriteFetcher.tweets[idx]
            o == destroyFavorite(destroyer, t, r)
        IN  /\ o.called \/ r = Success(<< >>)
            /\ clock' = clock + Elapsed(o.slept)
            /\ favorites' = IF o.deleted THEN favorites \ { t.ID } ELSE favorites
            /\ evaluated' = [evaluated EXCEPT !.favorites = @ \cup { t.ID }]
            /\ last' = Last("destroyFavorite", t, o.called, IF o.called THEN r ELSE NoCall,
                            IF o.panic THEN "panic" ELSE o.err, o.slept, favoriteFetcher.maxID)
            /\ log' = [log EXCEPT
                    !.requests = o.requests,
                    !.processed = Append(@, t.ID),
                    !.begun = TRUE,
                    !.deleted.favorites = IF o.requests > 0 THEN @ \cup { t.ID } ELSE @]
            /\ IF o.panic THEN Panic /\ UNCHANGED idx
               ELSE IF o.err # nil
               THEN Return(<< "failed to delete", o.err >>) /\ UNCHANGED idx
               ELSE IF idx < Len(favoriteFetcher.tweets)
               THEN idx' = idx + 1 /\ UNCHANGED << pc, runErr, exitCode >>
               ELSE pc' = "favorites" /\ idx' = 0 /\ UNCHANGED << runErr, exitCode >>
    /\ UNCHANGED << cfg, tweetFetcher, favoriteFetcher, destroyer, timeline, faithful, catalog,
                    probe >>

Next ==
    \/ Main
    \/ RunStart
    \/ FetchTweets
    \/ DestroyTweet
    \/ FetchFavorites
    \/ DestroyFavorite

Spec == Init /\ [][Next]_vars

----------------------------------------------------------------------------
(* isTombstoned on its own: one call on an item, a policy and an instant *)

ProbeTimes == (0 - 2)..1

ProbeTexts == SeqsUpTo({ "a", "b" }, 2)

ProbeKeywords == { << >>, << "a" >>, << "b" >>, << "a", "b" >> }

ProbeIDs == 1..2

ProbeTweets ==
    { Tweet(i, c, x) :
        i \in ProbeIDs,
        c \in { unparsable } \cup { [ok |-> TRUE, at |-> a] : a \in ProbeTimes },
        x \in ProbeTexts }

ProbeRetentions ==
    { Retention(ids, keywords, maxAge) :
        ids \in SeqsUpTo(ProbeIDs, 2),
        keywords \in SeqsUpTo(ProbeKeywords, 2),
        maxAge \in (0 - 1)..2 }

PolicyInit ==
    /\ pc = "probe"
    /\ probe \in { [t |-> t, r |-> r, now |-> now, done |-> FALSE, evict |-> FALSE,
                    err |-> FALSE] : t \in ProbeTweets, r \in ProbeRetentions, now \in 0..1 }
    /\ cfg = Config("u", "k", "s", "t", "ts", probe.r, "info")
    /\ clock = probe.now
    /\ exitCode = 0 - 1
    /\ runErr = << >>
    /\ tweetFetcher = newTweetFetcher
    /\ favoriteFetcher = newFavoriteFetcher
    /\ destroyer = newDestroyer(probe.r, probe.now)
    /\ idx = 0
    /\ timeline = {}
    /\ favorites = {}
    /\ faithful = TRUE
    /\ last = Last("none", NoTweet, FALSE, NoCall, "none", << >>, 0)
    /\ evaluated = [posts |-> {}, favorites |-> {}]
    /\ catalog = [i \in IDs |-> ItemKinds[1]]
    /\ log = [NoLog EXCEPT !.constructed = probe.now]

\* d.retention.isTombstoned(logger, t, d.now) (src/main.go:273, 301)
Probe ==
    /\ pc = "probe"
    /\ pc' = "probed"
    /\ LET o == isTombstoned(destroyer.retention, probe.t, destroyer.now)
       IN  probe' = [probe EXCEPT !.done = TRUE, !.evict = o.evict, !.err = o.err]
    /\ UNCHANGED << cfg, clock, exitCode, runErr, tweetFetcher, favoriteFetcher, destroyer,
                    idx, timeline, favorites, faithful, last, evaluated, catalog, log >>

PolicyNext == Probe

SpecPolicy == PolicyInit /\ [][PolicyNext]_vars

----------------------------------------------------------------------------
(* The retention rule, stated on sets *)

Range(q) == { q[i] : i \in 1..Len(q) }

\* text = pre \o keyword \o post for some pre and post
IsSubstring(keyword, text) ==
    \E a \in 0..Len(text) : \E b \in a..Len(text) : SubSeq(text, a + 1, b) = keyword

\* the item is younger than maxAge, or its id is kept, or its body holds a kept keyword
RuleKeeps(r, t, now) ==
    \/ now - t.CreatedAt.at < r.maxAge
    \/ t.ID \in Range(r.ids)
    \/ \E k \in Range(r.keywords) : IsSubstring(k, t.Text)

----------------------------------------------------------------------------
(* C2 *)

\* C2: for every item with a parsable creation time, every policy and every now,
\* isTombstoned returns evict exactly when now - createdAt >= maxAge, the id is
\* not a kept id and the body contains no kept keyword; otherwise it returns
\* keep, and it returns no error.
C2_EvictExactlyWhenRuleEvicts ==
    (probe.done /\ probe.t.CreatedAt.ok) =>
        /\ ~probe.err
        /\ probe.evict <=> ~RuleKeeps(probe.r, probe.t, probe.now)

\* an item at the age boundary, with kept ids and keywords that do not match, is evicted
C2_Witness ==
    /\ probe.done /\ probe.evict
    /\ probe.now - probe.t.CreatedAt.at = probe.r.maxAge
    /\ Len(probe.r.ids) = 2 /\ Len(probe.r.keywords) = 2
    /\ probe.t.Text # << >>

----------------------------------------------------------------------------
(* C1 *)

\* the item the destroyer is about to be handed
CurrentTweet ==
    IF pc = "tweetItems" THEN tweetFetcher.tweets[idx]
    ELSE IF pc = "favoriteItems" THEN favoriteFetcher.tweets[idx]
    ELSE NoTweet

\* the retention rule keeps item t at the destroyer's now
DestroyerKeeps(t) == t.CreatedAt.ok /\ RuleKeeps(destroyer.retention, t, destroyer.now)

\* one step of the destroyer on CurrentTweet, as C1 wants it
DestroyStepRespectsRule ==
    /\ last'.called => (CurrentTweet.CreatedAt.ok /\ ~DestroyerKeeps(CurrentTweet))
    /\ last'.called => (last'.t = CurrentTweet)
    /\ DestroyerKeeps(CurrentTweet) =>
          /\ ~last'.called
          /\ last'.ret = nil
          /\ runErr' = << >> /\ pc' # "exit" /\ pc' # "panic"
          /\ UNCHANGED << timeline, favorites, clock, tweetFetcher, favoriteFetcher,
                          destroyer >>

\* C1: a remote delete call is issued for an item only if the retention rule
\* evicts it at the destroyer's now; an item that is younger than maxAge, or
\* whose id is kept, or whose body contains a kept keyword is never the target
\* of a delete call, and processing it returns nil with no remote call and no
\* change of the remote collections, the fetchers, the destroyer or the clock.
C1_DeleteOnlyWhenEvicted ==
    [][(pc \in { "tweetItems", "favoriteItems" }) => DestroyStepRespectsRule]_vars

\* an old item whose id is kept has been processed: no call, nil returned
C1_Witness ==
    /\ last.op = "destroyFavorite"
    /\ ~last.called /\ last.ret = nil
    /\ destroyer.now - last.t.CreatedAt.at >= destroyer.retention.maxAge
    /\ last.t.ID \in Range(destroyer.retention.ids)
    /\ ~(\E k \in Range(destroyer.retention.keywords) : IsSubstring(k, last.t.Text))
    /\ last.t.ID \in favorites

----------------------------------------------------------------------------
(* C3 *)

\* C3: whenever a fetcher has recorded an error in its err field, run has
\* stopped and returned it as a "failed to fetch" error: run is never past a
\* stored error, never returns nil after one, and never sweeps the favorites
\* after the posts fetcher stored one.
C3_StoredFetchErrorIsFatal ==
    (tweetFetcher.err # nil \/ favoriteFetcher.err # nil) =>
        /\ pc = "exit"
        /\ runErr # << >>
        /\ runErr[1] = "failed to fetch"
        /\ last.op # "fetchFavorites" \/ tweetFetcher.err = nil

----------------------------------------------------------------------------
(* C4 *)

\* the item of identifier i, as the remote holds it
TweetOf(i) == Tweet(i, catalog[i].CreatedAt, catalog[i].Text)

\* C4: whenever run returns nil, every item of the posts collection and of the
\* favorites collection has been handed to the destroyer, and no item the
\* policy evicts is left in either collection. Stated for the runs in which
\* every successful list response was the full page of the newest items and
\* no fetcher has stored an error.
C4_SuccessMeansSwept ==
    (/\ pc = "exit" /\ exitCode = 0 /\ runErr = << >>
     /\ faithful
     /\ tweetFetcher.err = nil /\ favoriteFetcher.err = nil) =>
        /\ \A i \in timeline : i \in evaluated.posts /\ DestroyerKeeps(TweetOf(i))
        /\ \A i \in favorites : i \in evaluated.favorites /\ DestroyerKeeps(TweetOf(i))

----------------------------------------------------------------------------
(* C5, C6, C7, C8: the fetchers *)

\* the last operation was a call of fetch of the timeline or of the favorites
\* fetcher; f is that fetcher as the call left it
FetchedTweets == last.op = "fetchTweets"
FetchedFavorites == last.op = "fetchFavorites"

SetMin(S) == CHOOSE x \in S : \A y \in S : x <= y

LastID(tweets) == tweets[Len(tweets)].ID

SmallestID(tweets) == SetMin(Range(PageIDs(tweets)))

LargestID(tweets) == SetMax(Range(PageIDs(tweets)))

\* after a successful list response: a non-empty page makes fetch return true
\* with the cursor lowered (below the page's newest item, and below a non-zero
\* cursor it had), an empty page makes it return false with err unset
FetchFollowsPage(f) ==
    IF last.r.tweets # << >>
    THEN /\ last.ret = "true"
         /\ f.maxID < LargestID(last.r.tweets)
         /\ last.cursor # 0 => f.maxID < last.cursor
         /\ f.err = nil
    ELSE /\ last.ret = "false"
         /\ f.err = nil
         /\ f.maxID = last.cursor

C6_CursorIsSmallestMinusOne ==
    /\ (FetchedTweets /\ last.ret = "true") =>
            tweetFetcher.maxID = SmallestID(last.r.tweets) - 1
    /\ (FetchedFavorites /\ last.ret = "true") =>
            favoriteFetcher.maxID = SmallestID(last.r.tweets) - 1

\* C6 as amended: after every fetch that succeeds with a non-empty page, maxID
\* is the identifier of the page's last item minus one; that is the smallest
\* identifier minus one when the page's last item is its smallest.
C6_CursorIsLastMinusOne ==
    /\ (FetchedTweets /\ ~last.r.err /\ last.r.tweets # << >>) =>
            /\ last.ret = "true"
            /\ tweetFetcher.tweets = last.r.tweets
            /\ tweetFetcher.maxID = LastID(last.r.tweets) - 1
            /\ LastID(last.r.tweets) = SmallestID(last.r.tweets) =>
                    tweetFetcher.maxID = SmallestID(last.r.tweets) - 1
    /\ (FetchedFavorites /\ ~last.r.err /\ last.r.tweets # << >>) =>
            /\ last.ret = "true"
            /\ favoriteFetcher.tweets = last.r.tweets
            /\ favoriteFetcher.maxID = LastID(last.r.tweets) - 1
            /\ LastID(last.r.tweets) = SmallestID(last.r.tweets) =>
                    favoriteFetcher.maxID = SmallestID(last.r.tweets) - 1

\* a page whose last item is not its smallest has been fetched
C6_Witness ==
    /\ FetchedTweets /\ last.ret = "true"
    /\ Len(last.r.tweets) = 2
    /\ LastID(last.r.tweets) # SmallestID(last.r.tweets)
    /\ tweetFetcher.maxID = LastID(last.r.tweets) - 1

\* the last operation left the cursor of f as it was, unless it was a fetch of
\* f that returned true
CursorKept(f, fetched) == (~fetched \/ last.ret # "true") => f.maxID = last.cursor

\* both cursors are zero until the first call of fetch
CursorsStartAtZero ==
    /\ pc \in { "main", "run" } => tweetFetcher.maxID = 0 /\ favoriteFetcher.maxID = 0
    /\ pc \in { "main", "run", "tweets", "tweetItems" } => favoriteFetcher.maxID = 0
    /\ last.op = "start" /\ pc = "tweets" => tweetFetcher.maxID = 0

\* C7 as claimed: the cursor starts at zero; every fetch that returns true
\* leaves it non-zero and, when it was non-zero, strictly smaller than before;
\* nothing else changes it. (The remote of this model returns only items whose
\* identifier is <= a non-zero cursor.)
C7_CursorNeverZeroAgain ==
    /\ CursorsStartAtZero
    /\ (FetchedTweets /\ last.ret = "true") =>
            /\ tweetFetcher.maxID # 0
            /\ last.cursor # 0 => tweetFetcher.maxID < last.cursor
    /\ (FetchedFavorites /\ last.ret = "true") =>
            /\ favoriteFetcher.maxID # 0
            /\ last.cursor # 0 => favoriteFetcher.maxID < last.cursor

\* C7 as amended: the cursor starts at zero; every fetch that returns true with
\* a non-zero cursor leaves it strictly smaller than before; it is zero after a
\* fetch that returns true exactly when the page's last item has identifier 1;
\* an operation that is not a fetch returning true leaves the cursor alone.
C7_CursorLowersZeroOnlyAtOne ==
    /\ CursorsStartAtZero
    /\ (FetchedTweets /\ last.ret = "true") =>
            /\ tweetFetcher.maxID = 0 <=> LastID(last.r.tweets) = 1
            /\ tweetFetcher.maxID >= 0
            /\ last.cursor # 0 => tweetFetcher.maxID < last.cursor
    /\ (FetchedFavorites /\ last.ret = "true") =>
            /\ favoriteFetcher.maxID = 0 <=> LastID(last.r.tweets) = 1
            /\ favoriteFetcher.maxID >= 0
            /\ last.cursor # 0 => favoriteFetcher.maxID < last.cursor
    /\ last.op \in { "fetchTweets", "destroyTweet" } => CursorKept(tweetFetcher, FetchedTweets)
    /\ last.op \in { "fetchFavorites", "destroyFavorite" } =>
            CursorKept(favoriteFetcher, FetchedFavorites)

\* a second page, fetched with a non-zero cursor, has lowered the cursor
C7_Witness ==
    /\ FetchedTweets /\ last.ret = "true"
    /\ last.cursor # 0
    /\ tweetFetcher.maxID < last.cursor
    /\ evaluated.posts # {}

\* the list call failed and the failure was not a rate-limit response
ListFailedOtherwise == last.r.err /\ ~IsRateLimit(last.r)

\* C8: for every list-call failure that is not a rate-limit signal, a transport
\* failure with no response as well as an application error with a status other
\* than 429, fetch records the error in err and returns false, and leaves the
\* cursor unchanged.
C8_FailureStoredAndFalse ==
    /\ (FetchedTweets /\ ListFailedOtherwise) =>
            /\ last.ret = "false"
            /\ tweetFetcher.err # nil
            /\ tweetFetcher.maxID = last.cursor
    /\ (FetchedFavorites /\ ListFailedOtherwise) =>
            /\ last.ret = "false"
            /\ favoriteFetcher.err # nil
            /\ favoriteFetcher.maxID = last.cursor

----------------------------------------------------------------------------
(* C9, C10: back-off *)

\* the decimal numerals of at most two digits, with their values
Numerals ==
    { [s |-> << d >>, n |-> DigitValue(d)] : d \in { "0", "1" } }
    \cup { [s |-> << d, e >>, n |-> 10 * DigitValue(d) + DigitValue(e)] :
             d \in { "0", "1" }, e \in { "0", "1" } }

\* the header values that are integers, with the integer each denotes
IntegerHeaders ==
    { [h |-> Header(TRUE, m.s), n |-> m.n] : m \in Numerals }
    \cup { [h |-> Header(TRUE, << "-" >> \o m.s), n |-> 0 - m.n] : m \in Numerals }

IsIntegerHeader(h) == \E i \in IntegerHeaders : i.h = h

IntegerOf(h) == (CHOOSE i \in IntegerHeaders : i.h = h).n

\* the last operation made its remote call and got a rate-limit response
RateLimited == last.called /\ IsRateLimit(last.r)

\* the last operation slept n seconds once, n the header's integer, or not at
\* all when the header is missing or no integer
SleptAsHeaderSays ==
    IF IsIntegerHeader(last.r.resp.Header)
    THEN last.slept = << IntegerOf(last.r.resp.Header) >>
    ELSE last.slept = << >>

\* what fetch does with a rate-limit response
FetchBacksOff(f) ==
    /\ SleptAsHeaderSays
    /\ last.ret = "false"
    /\ f.maxID = last.cursor
    /\ f.err = IF IsIntegerHeader(last.r.resp.Header) THEN nil ELSE "failed to back off"

\* what destroyTweet and destroyFavorite do with a rate-limit response
DestroyBacksOff ==
    /\ SleptAsHeaderSays
    /\ last.ret = IF IsIntegerHeader(last.r.resp.Header) THEN nil ELSE "failed to back off"

\* C9: on a rate-limit response whose X-Rate-Limit-Reset header is an integer n
\* the operation calls sleep once, for n seconds, and returns without an error
\* (fetch with err unset, the destroy operations nil); when the header is
\* missing or no integer it does not sleep and reports "failed to back off"
\* (fetch in err, returning false; the destroy operations as their result).
C9_BackOffOnceOrFail ==
    /\ (FetchedTweets /\ RateLimited) => FetchBacksOff(tweetFetcher)
    /\ (FetchedFavorites /\ RateLimited) => FetchBacksOff(favoriteFetcher)
    /\ (last.op \in { "destroyTweet", "destroyFavorite" } /\ RateLimited) => DestroyBacksOff

\* a delete call was rate limited with header "1": one sleep of 1 s, nil returned
C9_Witness ==
    /\ last.op = "destroyTweet" /\ RateLimited
    /\ last.r.resp.Header = Header(TRUE, << "1" >>)
    /\ last.slept = << 1 >>
    /\ last.ret = nil
    /\ clock = 1

GoesOn(items, fetch) == pc = items \/ pc = fetch

----------------------------------------------------------------------------
(* C11: the order of the two sweeps *)

PostsOps == { "fetchTweets", "destroyTweet" }

FavoritesOps == { "fetchFavorites", "destroyFavorite" }

DestroyOps == { "destroyTweet", "destroyFavorite" }

FetchOps == { "fetchTweets", "fetchFavorites" }

\* one step of the run, as C11 wants it: a favorites operation is issued only
\* once the posts fetcher has returned false, and no posts operation is issued
\* once a favorites operation has been
StepKeepsStreamsApart ==
    /\ last'.op \in FavoritesOps => log.drained
    /\ log.begun => last'.op \notin PostsOps
    /\ last'.op \in PostsOps => ~log'.begun

\* C11: in every run no favorites operation (list favorites, delete favorite)
\* is issued before the posts fetcher has returned false, and no posts
\* operation (list timeline, delete post) is issued after the first favorites
\* operation.
C11_StreamsNotInterleaved == [][StepKeepsStreamsApart]_vars

\* a favorite is being deleted after posts were deleted and the posts fetcher
\* returned false
C11_Witness ==
    /\ last.op = "destroyFavorite" /\ last.called
    /\ log.drained /\ log.begun
    /\ log.returned.posts = "false"
    /\ log.deleted.posts # {}

----------------------------------------------------------------------------
(* C12, C13: errors of the destroy operations *)

\* some item handed to the destroyer so far has a creation time that does not parse
HandedUnparsable ==
    \E i \in evaluated.posts \cup evaluated.favorites : ~catalog[i].CreatedAt.ok

\* C12: when an item's creation timestamp cannot be parsed, no delete call is
\* issued for it, it is not skipped, and the run aborts with an error: the item
\* is the last one processed, it is left in its collection, and run has
\* returned the error, so that no later item is processed and no later page of
\* either resource is fetched.
C12_UnparsableAborts ==
    HandedUnparsable =>
        /\ last.op \in DestroyOps
        /\ ~last.t.CreatedAt.ok
        /\ ~last.called /\ log.requests = 0
        /\ last.ret = "failed to parse time"
        /\ last.op = "destroyTweet" => last.t.ID \in timeline
        /\ last.op = "destroyFavorite" => last.t.ID \in favorites
        /\ pc = "exit" /\ exitCode = 1
        /\ runErr = << "failed to delete", "failed to parse time" >>

\* the first item of a page of two favorites did not parse: the run is over with
\* the second item unprocessed
C12_Witness ==
    /\ last.op = "destroyFavorite" /\ ~last.t.CreatedAt.ok
    /\ pc = "exit" /\ runErr # << >>
    /\ idx = 1 /\ Len(favoriteFetcher.tweets) = 2
    /\ favoriteFetcher.tweets[2].ID \notin evaluated.favorites
    /\ evaluated.posts # {}

\* the delete call of the last operation failed, and not with a rate-limit response
DeleteFailedOtherwise ==
    last.op \in DestroyOps /\ last.called /\ last.r.err /\ ~IsRateLimit(last.r)

\* C13: when a delete call fails with an error that is not a rate-limit signal
\* (a transport failure with no response, or an application error with a status
\* other than 429), the destroy operation returns that error at once, without
\* sleeping and without a second request, and run halts with a "failed to
\* delete" error.
C13_DeleteErrorHaltsRun ==
    DeleteFailedOtherwise =>
        /\ last.ret = "remote error"
        /\ last.slept = << >> /\ log.requests = 1
        /\ pc = "exit" /\ exitCode = 1
        /\ runErr = << "failed to delete", "remote error" >>

----------------------------------------------------------------------------
(* C14: one request per call *)

\* the item of the last destroy operation is still in its collection
StillThere ==
    /\ last.op = "destroyTweet" => last.t.ID \in timeline
    /\ last.op = "destroyFavorite" => last.t.ID \in favorites

\* C14: each call of fetch issues exactly one remote list request and each call
\* of destroyTweet or destroyFavorite issues at most one remote delete request
\* (one exactly when it calls the remote at all), also when the response is a
\* rate-limit signal: after the back-off sleep fetch returns false without the
\* page, and the destroy operation returns with the item still in its
\* collection; neither request is issued a second time.
C14_OneRequestPerCall ==
    /\ last.op \in FetchOps => log.requests = 1
    /\ last.op \in DestroyOps => log.requests = (IF last.called THEN 1 ELSE 0)
    /\ (FetchedTweets /\ RateLimited) => last.ret = "false" /\ tweetFetcher.tweets = << >>
    /\ (FetchedFavorites /\ RateLimited) => last.ret = "false" /\ favoriteFetcher.tweets = << >>
    /\ (last.op \in DestroyOps /\ RateLimited) => StillThere

\* a delete of a favorite was rate limited and slept a second: one request, the
\* favorite is still there
C14_Witness ==
    /\ last.op = "destroyFavorite" /\ RateLimited
    /\ last.slept = << 1 >>
    /\ log.requests = 1
    /\ last.t.ID \in favorites
    /\ last.ret = nil

----------------------------------------------------------------------------
(* C15: a page is processed before the next is fetched *)

\* the identifiers of the first n items of the page
FirstIDs(tweets, n) == SubSeq(PageIDs(tweets), 1, n)

\* C15: whenever a fetcher is about to issue a list request, every item of the
\* page it fetched before has been handed to the destroyer, in page order; and
\* while a page is being processed, the items handed over so far are the items
\* before the current one, in page order, one per step.
C15_PageDoneBeforeNextFetch ==
    /\ pc = "tweets" => log.processed = PageIDs(tweetFetcher.tweets)
    /\ pc = "favorites" => log.processed = PageIDs(favoriteFetcher.tweets)
    /\ pc = "tweetItems" => log.processed = FirstIDs(tweetFetcher.tweets, idx - 1)
    /\ pc = "favoriteItems" => log.processed = FirstIDs(favoriteFetcher.tweets, idx - 1)

\* the second page of posts is about to be requested after both items of the
\* first were processed in page order
C15_Witness ==
    /\ pc = "tweets" /\ last.op = "destroyTweet"
    /\ Len(tweetFetcher.tweets) = 2
    /\ log.processed = PageIDs(tweetFetcher.tweets)
    /\ last.t = tweetFetcher.tweets[2]

----------------------------------------------------------------------------
(* C16: validation *)

\* the configuration is not valid as the specification has it: a required
\* string is empty or the maximum age is not strictly greater than zero
IsInvalid(c) ==
    \/ c.username = "" \/ c.consumerKey = "" \/ c.consumerSecret = ""
    \/ c.oauthToken = "" \/ c.oauthTokenSecret = ""
    \/ c.retention.maxAge <= 0

\* C16: if the username or one of the four credential strings is empty, or the
\* maximum age is not strictly greater than zero, the run is rejected with exit
\* code 2 before any network activity: the process is still in main, or it has
\* exited from main with code 2.
C16_InvalidConfigRejected ==
    IsInvalid(cfg) =>
        \/ pc = "main"
        \/ pc = "exit" /\ exitCode = 2 /\ last.op = "main" /\ log.requests = 0

----------------------------------------------------------------------------
(* C17: the destroyer's now *)

\* one step of the run, as C17 wants it: once constructed the destroyer is not
\* changed, and an item is the target of a delete call exactly when the rule
\* evicts it at the instant of the construction, whatever the clock is now
StepKeepsNow ==
    /\ pc \notin { "main", "run" } => destroyer' = destroyer
    /\ pc = "run" /\ pc' = "tweets" => destroyer'.now = clock
    /\ pc \in { "tweetItems", "favoriteItems" } =>
          /\ destroyer.now = log.constructed
          /\ last'.called <=>
                (/\ CurrentTweet.CreatedAt.ok
                 /\ ~RuleKeeps(destroyer.retention, CurrentTweet, log.constructed))

\* C17: the destroyer's now is captured once, at construction, and never
\* changed afterwards: every policy decision of a run, for posts and for
\* favorites and after any number of back-off sleeps, is evaluated against
\* that instant.
C17_NowCapturedOnce == [][StepKeepsNow]_vars

\* after a back-off sleep a favorite is kept for its age alone: at the clock's
\* time it would be old enough to be evicted
C17_Witness ==
    /\ last.op = "destroyFavorite" /\ ~last.called /\ last.ret = nil
    /\ clock > log.constructed
    /\ destroyer.now = log.constructed
    /\ last.t.CreatedAt.ok
    /\ ~RuleKeeps(destroyer.retention, last.t, clock)

----------------------------------------------------------------------------
(* C18: err and the value of fetch *)

\* C18: whenever a fetcher's last call of fetch returned true, its err is unset
\* and its tweets field holds a non-empty page; whenever its err is set, its
\* last call of fetch returned false and run has left that fetcher's loop; and
\* run never returns a "failed to fetch" error: the checks in the two loop
\* bodies are never satisfied.
C18_ErrOnlyWithFalse ==
    /\ log.returned.posts = "true" => tweetFetcher.err = nil /\ tweetFetcher.tweets # << >>
    /\ log.returned.favorites = "true" =>
            favoriteFetcher.err = nil /\ favoriteFetcher.tweets # << >>
    /\ tweetFetcher.err # nil =>
            log.returned.posts = "false" /\ pc \notin { "tweets", "tweetItems" }
    /\ favoriteFetcher.err # nil =>
            log.returned.favorites = "false" /\ pc \notin { "favorites", "favoriteItems" }
    /\ runErr # << >> => runErr[1] # "failed to fetch"

\* the posts fetcher stored an error after a page had been processed, and the
\* run went on to the favorites
C18_Witness ==
    /\ tweetFetcher.err = "failed to fetch tweets"
    /\ log.returned.posts = "false"
    /\ evaluated.posts # {}
    /\ pc = "favoriteItems"

----------------------------------------------------------------------------
(* C19: no item twice *)

\* the item about to be handed to the destroyer was not handed to it before by
\* the same fetcher, and if a delete request is issued for it in this step, none
\* was issued for it before
HandsFreshPost ==
    /\ CurrentTweet.ID \notin evaluated.posts
    /\ last'.called => CurrentTweet.ID \notin log.deleted.posts

HandsFreshFavorite ==
    /\ CurrentTweet.ID \notin evaluated.favorites
    /\ last'.called => CurrentTweet.ID \notin log.deleted.favorites

\* one step of the run, as C19 claims it
StepHandsFresh ==
    /\ pc = "tweetItems" => HandsFreshPost
    /\ pc = "favoriteItems" => HandsFreshFavorite

\* C19 as claimed: the pages one fetcher delivers in a run are pairwise
\* disjoint: no item is handed to the destroyer twice by the same fetcher and
\* at most one delete request per item is issued for each resource. (The remote
\* of this model returns only items whose identifier is <= a non-zero cursor.)
C19_NothingHandedTwice == [][StepHandsFresh]_vars

\* no page delivered so far ended with identifier 1: the pages ending with their
\* smallest item, the item of identifier 1 is the last of the page that holds
\* it, and it is in the page being processed or has been handed over
NoPageEndedWithOne(handed, tweets) ==
    /\ 1 \notin handed
    /\ tweets # << >> => LastID(tweets) # 1

\* one step of the run, as the amended C19 wants it
StepHandsFreshInOrder ==
    /\ (/\ pc = "tweetItems" /\ log.descending
        /\ NoPageEndedWithOne(evaluated.posts, tweetFetcher.tweets)) => HandsFreshPost
    /\ (/\ pc = "favoriteItems" /\ log.descending
        /\ NoPageEndedWithOne(evaluated.favorites, favoriteFetcher.tweets)) => HandsFreshFavorite

\* C19 as amended: as long as the last item of every page was the page's
\* smallest and no page of the fetcher ended with identifier 1 (its cursor has
\* not come back to zero), no item is handed to the destroyer twice by that
\* fetcher and no second delete request is issued for an item of that resource.
C19_NothingHandedTwiceInOrder == [][StepHandsFreshInOrder]_vars

\* the item of the second page of favorites has been processed, the pages
\* having come in descending order and the cursor being 1
C19_Witness ==
    /\ last.op = "destroyFavorite"
    /\ log.descending
    /\ NoPageEndedWithOne(evaluated.favorites, favoriteFetcher.tweets)
    /\ evaluated.favorites = { 2, 3 }
    /\ PageIDs(favoriteFetcher.tweets) = << 2 >>
    /\ favoriteFetcher.maxID = 1

----------------------------------------------------------------------------
(* C20: termination *)

\* every remote call and every back-off sleep returns: a step that can be
\* taken is taken
FairSpec == Spec /\ WF_vars(Next)

\* run has returned, or the process has ended
Done == pc \in { "exit", "panic" }

\* a call of fetch has just returned true and left the cursor at zero
CursorBackAtZero ==
    \/ FetchedTweets /\ last.ret = "true" /\ tweetFetcher.maxID = 0
    \/ FetchedFavorites /\ last.ret = "true" /\ favoriteFetcher.maxID = 0

\* C20 as claimed: every run eventually returns, with success or an error:
\* both pagination loops terminate. (The collections of this model are finite
\* and its remote returns only items whose identifier is <= a non-zero cursor.)
C20_RunReturns == <>Done

\* C20 as amended: every run eventually returns, unless a call of fetch leaves
\* the cursor at zero again (a page ended with identifier 1): as long as no
\* page ends with identifier 1, both pagination loops terminate, whatever the
\* order of the pages and whatever the policy keeps or evicts.
C20_RunReturnsUnlessBackAtZero == <>(Done \/ CursorBackAtZero)

\* run has returned nil after both sweeps processed items and moved their
\* cursors, item 1 never having come in a page, with kept items left behind
C20_Witness ==
    /\ pc = "exit" /\ exitCode = 0
    /\ tweetFetcher.maxID # 0 /\ favoriteFetcher.maxID # 0
    /\ evaluated.posts = { 2, 3 } /\ evaluated.favorites = { 2, 3 }
    /\ timeline # {} /\ favorites # {}

====
